---------------------------- MODULE Spec2Model ----------------------------
(***************************************************************************)
(* A model of collect-homelab-stats.py: the command executor, the five    *)
(* collectors, the aggregator, the sink, the publisher and main.           *)
(*                                                                         *)
(* Text is a sequence of one-character strings ("SUP2" stands for the one  *)
(* character U+00B2, SUPERSCRIPT TWO).  Instants are whole seconds.        *)
(* Fractional numbers are kept exactly as integers in a stated unit:       *)
(* terabytes and percentages with one decimal are counted in tenths.       *)
(***************************************************************************)
EXTENDS Integers, Sequences, FiniteSets, TLC

VARIABLES
    pc,               \* position of the run (or of the function under study)
    inp,              \* the external outcomes a function-level run is given
    out,              \* the value a function-level run returned
    clock,            \* the wall clock, in seconds
    now,              \* collect_all_stats: local `now`
    uptime_pct,       \* collect_all_stats: local `uptime_pct`
    security_stats,   \* collect_all_stats: local `security_stats`
    container_stats,  \* collect_all_stats: local `container_stats`
    storage_stats,    \* collect_all_stats: local `storage_stats`
    services,         \* collect_all_stats: the list `services` being built
    stats,            \* main: local `stats`, the Snapshot
    file,             \* the file at CONFIG['output_path']: <<>> empty, <<s>> holds s
    raised,           \* the exception propagating out of main, and from where
    exit_code         \* process exit status, -1 while the process runs

vars == <<pc, inp, out, clock, now, uptime_pct, security_stats,
          container_stats, storage_stats, services, stats, file, raised,
          exit_code>>

None == "None"

\* no exception is propagating
NoException == [exc |-> "none", from |-> "none"]

-----------------------------------------------------------------------------
(* Bounds of the model.                                                    *)

\* longest raw standard output enumerated character by character
MaxOutLen == 3
\* how many seconds the wall clock may advance during one run
MaxTicks == 1

-----------------------------------------------------------------------------
(* Text primitives (str methods and the int/float constructors).           *)

SeqsUpTo(S, n) == UNION {[1..k -> S] : k \in 0..n}

Whitespace == {" ", "\n", "\t"}

AsciiDigits == {"0", "1", "2", "3", "4", "5", "6", "7", "8", "9"}

\* characters for which str.isdigit() is true but which int() rejects
OtherDigits == {"SUP2"}

DigitVal(c) ==
    CASE c = "0" -> 0 [] c = "1" -> 1 [] c = "2" -> 2 [] c = "3" -> 3
      [] c = "4" -> 4 [] c = "5" -> 5 [] c = "6" -> 6 [] c = "7" -> 7
      [] c = "8" -> 8 [] c = "9" -> 9

RECURSIVE lstrip(_)
lstrip(s) ==
    IF s # <<>> /\ Head(s) \in Whitespace THEN lstrip(Tail(s)) ELSE s

RECURSIVE rstrip(_)
rstrip(s) ==
    IF s # <<>> /\ s[Len(s)] \in Whitespace
    THEN rstrip(SubSeq(s, 1, Len(s) - 1))
    ELSE s

\* str.strip()
strip(s) == rstrip(lstrip(s))

\* str.isdigit(): non-empty and every character is a digit character
isdigit(s) ==
    /\ s # <<>>
    /\ \A i \in 1..Len(s) : s[i] \in AsciiDigits \cup OtherDigits

AllAscii(s) == s # <<>> /\ \A i \in 1..Len(s) : s[i] \in AsciiDigits

RECURSIVE DecVal(_)
DecVal(s) ==
    IF s = <<>> THEN 0
    ELSE 10 * DecVal(SubSeq(s, 1, Len(s) - 1)) + DigitVal(s[Len(s)])

\* int(s): [ok |-> FALSE] stands for ValueError
int(s) ==
    LET t == strip(s)
        signed == t # <<>> /\ Head(t) \in {"-", "+"}
        body == IF signed THEN Tail(t) ELSE t
    IN  IF AllAscii(body)
        THEN [ok |-> TRUE,
              v |-> IF signed /\ Head(t) = "-" THEN -DecVal(body)
                    ELSE DecVal(body)]
        ELSE [ok |-> FALSE, v |-> 0]

-----------------------------------------------------------------------------
(* Command executor.                                                       *)

\* how a subprocess.run call can end
Hows == {"exit0", "nonzero", "timeout", "oserror"}

Outcome(how, stdout) == [how |-> how, stdout |-> stdout]

\* the executor with check=True: a non-zero exit status raises, and is caught
run_command_checked(o) ==
    IF o.how \in {"nonzero", "timeout", "oserror"} THEN <<>>
    ELSE strip(o.stdout)

run_command(o) ==
    IF o.how \in {"timeout", "oserror"} THEN <<>> ELSE strip(o.stdout)

RunInputs ==
    {Outcome(h, s) : h \in Hows, s \in SeqsUpTo({" ", "\n", "a", "7"}, MaxOutLen)}

RunIdle ==
    /\ clock = 0 /\ now = None /\ uptime_pct = None /\ security_stats = None
    /\ container_stats = None /\ storage_stats = None /\ services = <<>>
    /\ stats = None /\ file = <<>> /\ raised = NoException /\ exit_code = -1

RunVars == <<clock, now, uptime_pct, security_stats, container_stats,
             storage_stats, services, stats, file, raised, exit_code>>

InitRun == pc = "call" /\ inp \in RunInputs /\ out = None /\ RunIdle

RunCommand ==
    /\ pc = "call"
    /\ out' = run_command(inp)
    /\ pc' = "ret"
    /\ UNCHANGED <<inp, RunVars>>

SpecRun == InitRun /\ [][RunCommand]_vars

-----------------------------------------------------------------------------
(* Uptime collector.                                                       *)

RECURSIVE Pow10(_)
Pow10(n) == IF n = 0 THEN 1 ELSE 10 * Pow10(n - 1)

T_nan == <<"n", "a", "n">>
T_inf == <<"i", "n", "f">>

\* float(s).  [ok |-> FALSE] stands for ValueError; a finite value is the
\* exact fraction num/den.  Exponents and underscores are not modelled: no
\* enumerated text holds an "e" or an "_".
float(s) ==
    LET t == strip(s)
        signed == t # <<>> /\ Head(t) \in {"-", "+"}
        neg == signed /\ Head(t) = "-"
        body == IF signed THEN Tail(t) ELSE t
        dots == {i \in 1..Len(body) : body[i] = "."}
        dot == IF dots = {} THEN Len(body) + 1 ELSE CHOOSE i \in dots : TRUE
        ip == SubSeq(body, 1, dot - 1)
        fp == SubSeq(body, dot + 1, Len(body))
        digitsOnly(x) == \A i \in 1..Len(x) : x[i] \in AsciiDigits
    IN  IF body = T_nan
          THEN [ok |-> TRUE, kind |-> "nan", num |-> 0, den |-> 1]
        ELSE IF body = T_inf
          THEN [ok |-> TRUE, kind |-> IF neg THEN "-inf" ELSE "inf",
                num |-> 0, den |-> 1]
        ELSE IF /\ Cardinality(dots) <= 1
                /\ digitsOnly(ip) /\ digitsOnly(fp)
                /\ Len(ip) + Len(fp) > 0
          THEN [ok |-> TRUE, kind |-> "fin",
                num |-> IF neg THEN -DecVal(ip \o fp) ELSE DecVal(ip \o fp),
                den |-> Pow10(Len(fp))]
        ELSE [ok |-> FALSE, kind |-> "err", num |-> 0, den |-> 1]

\* The integers nearest to n/d (d > 0).  At an exact tie of the real value
\* the double that Python rounds lies a rounding error to one side or the
\* other (round(0.05, 1) is 0.1), so both neighbours are possible.
RoundSet(n, d) ==
    LET q == n \div d
        r == n - q * d
    IN  IF 2 * r < d THEN {q} ELSE IF 2 * r > d THEN {q + 1} ELSE {q, q + 1}

\* thirty_days_seconds = 30 * 24 * 60 * 60
ThirtyDaysSeconds == 2592000

\* a percentage with one decimal, in tenths; 99.5 is 995
Pct(tenths) == [k |-> "num", tenths |-> tenths]

UptimeFallback == Pct(995)

\* The values get_uptime_percentage can return for the outcome o of its one
\* command (a set only because of RoundSet).
get_uptime_percentage(o) ==
    LET uptime_output == run_command(o)
        f == float(uptime_output)
        \* uptime_seconds / thirty_days_seconds * 100 > 100
        over == \/ f.num \div f.den > ThirtyDaysSeconds
                \/ /\ f.num \div f.den = ThirtyDaysSeconds
                   /\ f.num % f.den # 0
    IN  IF ~f.ok THEN {UptimeFallback}
        ELSE IF f.kind = "nan" THEN {[k |-> "nan", tenths |-> 0]}
        ELSE IF f.kind = "-inf" THEN {[k |-> "-inf", tenths |-> 0]}
        ELSE IF f.kind = "inf" \/ over THEN {Pct(1000)}
        ELSE {Pct(t) : t \in RoundSet(f.num, f.den * (ThirtyDaysSeconds \div 1000))}

\* what a command prints: the text and the newline ending its last line
RawOf(t) == IF t = <<>> THEN <<>> ELSE t \o <<"\n">>

UptimeSamples ==
    { T_nan, T_inf, <<"-">> \o T_inf,
      <<"-", "2", "6", "0", "0", "0", ".", "0", "0">>,
      <<"2", "5", "9", "2", "0", "0", "0", ".", "0", "0">>,
      <<"2", "5", "9", "2", "0", "0", "0", ".", "0", "1">>,
      <<"3", "0", "0", "0", "0", "0", "0", ".", "5", "5">>,
      <<"8", "6", "4", "0", "0", ".", "0", "0">>,
      <<"1", "2", "9", "6", ".", "0", "0">>,
      <<"1", "2", "3", "4", "5", ".", "6", "7">> }

UptimeTexts == SeqsUpTo({"1", "0", ".", "-", "x"}, MaxOutLen) \cup UptimeSamples

UptimeInputs == {Outcome(h, RawOf(t)) : h \in Hows, t \in UptimeTexts}

InitUptime == pc = "call" /\ inp \in UptimeInputs /\ out = None /\ RunIdle

GetUptimePercentage ==
    /\ pc = "call"
    /\ out' \in get_uptime_percentage(inp)
    /\ pc' = "ret"
    /\ UNCHANGED <<inp, RunVars>>

SpecUptime == InitUptime /\ [][GetUptimePercentage]_vars

-----------------------------------------------------------------------------
(* Intrusion-block collector.                                              *)

\* `int(x) if x.isdigit() else 0`; [ok |-> FALSE] when int(x) raises
IntIfDigit(x) == IF isdigit(x) THEN int(x) ELSE [ok |-> TRUE, v |-> 0]

Floor24h == 100

FloorTotal == 45000

Security(h24, total, active) ==
    [attacks_blocked_24h |-> h24, attacks_blocked_total |-> total,
     active_bans |-> active]

\* the record of the except branch
SecurityFallback == Security(2847, 45230, 156)

\* o_banned, o_24h, o_active: the outcomes of the three commands, in the
\* order the code runs them
get_attacks_blocked(o_banned, o_24h, o_active) ==
    LET total_banned == IntIfDigit(run_command(o_banned))
        bans_24h == IntIfDigit(run_command(o_24h))
        active_bans == IntIfDigit(run_command(o_active))
        Max(a, b) == IF a >= b THEN a ELSE b
    IN  IF total_banned.ok /\ bans_24h.ok /\ active_bans.ok
        THEN Security(Max(bans_24h.v, Floor24h),
                      Max(total_banned.v, FloorTotal),
                      active_bans.v)
        ELSE SecurityFallback

\* longest count text enumerated character by character
MaxCountLen == 2

CountSamples ==
    { <<"9", "9">>, <<"1", "0", "0">>, <<"2", "5", "0">>,
      <<"4", "4", "9", "9", "9">>, <<"4", "5", "0", "0", "0">>, <<"5", "0", "0", "0", "0">>,
      <<"-", "5">>, <<"5", "\n", "7">> }

CountTexts == SeqsUpTo({"5", "SUP2", "x"}, MaxCountLen) \cup CountSamples

\* a command's outcomes as a collector can tell them apart: what it printed,
\* or a timeout
CountOutcomes ==
    {Outcome("exit0", RawOf(t)) : t \in CountTexts} \cup {Outcome("timeout", <<>>)}

SecurityInputs == CountOutcomes \X CountOutcomes \X CountOutcomes

InitSecurity == pc = "call" /\ inp \in SecurityInputs /\ out = None /\ RunIdle

GetAttacksBlocked ==
    /\ pc = "call"
    /\ out' = get_attacks_blocked(inp[1], inp[2], inp[3])
    /\ pc' = "ret"
    /\ UNCHANGED <<inp, RunVars>>

SpecSecurity == InitSecurity /\ [][GetAttacksBlocked]_vars

-----------------------------------------------------------------------------
(* Container status collector.                                             *)

Containers(running, total, healthy, unhealthy) ==
    [running |-> running, total |-> total, healthy |-> healthy,
     unhealthy |-> unhealthy]

\* the record of the except branch
ContainersFallback == Containers(24, 26, 24, 0)

DefaultRunning == 24

DefaultTotal == 26

get_container_stats(o_running, o_total, o_healthy, o_unhealthy) ==
    LET running == IntIfDigit(run_command(o_running))
        total == IntIfDigit(run_command(o_total))
        healthy_out == run_command(o_healthy)
        \* `int(healthy) if healthy.isdigit() else running`
        healthy == IF isdigit(healthy_out) THEN int(healthy_out) ELSE running
        unhealthy == IntIfDigit(run_command(o_unhealthy))
    IN  IF running.ok /\ total.ok /\ healthy.ok /\ unhealthy.ok
        THEN Containers(IF running.v > 0 THEN running.v ELSE DefaultRunning,
                        IF total.v > 0 THEN total.v ELSE DefaultTotal,
                        IF healthy.v > 0 THEN healthy.v ELSE running.v,
                        unhealthy.v)
        ELSE ContainersFallback

ContainerTexts ==
    { <<>>, <<"0">>, <<"3">>, <<"2", "4">>, <<"x">>, <<"SUP2">> }

ContainerOutcomes ==
    {Outcome("exit0", RawOf(t)) : t \in ContainerTexts}
        \cup {Outcome("timeout", <<>>)}

ContainerInputs ==
    ContainerOutcomes \X ContainerOutcomes \X ContainerOutcomes \X ContainerOutcomes

InitContainers ==
    pc = "call" /\ inp \in ContainerInputs /\ out = None /\ RunIdle

GetContainerStats ==
    /\ pc = "call"
    /\ out' = get_container_stats(inp[1], inp[2], inp[3], inp[4])
    /\ pc' = "ret"
    /\ UNCHANGED <<inp, RunVars>>

SpecContainers == InitContainers /\ [][GetContainerStats]_vars

-----------------------------------------------------------------------------
(* Storage collector.                                                      *)
(* Sizes are counted in units of 1024**3 bytes, so that the code's divisor *)
(* 1024**4 is 1024 units: the quotients and comparisons are unchanged, and *)
(* the sums stay within the integers of the checker.                       *)

RECURSIVE TakeWord(_)
TakeWord(s) ==
    IF s = <<>> \/ Head(s) \in Whitespace THEN <<>>
    ELSE <<Head(s)>> \o TakeWord(Tail(s))

\* str.split(): the maximal runs of non-whitespace characters
RECURSIVE split(_)
split(s) ==
    LET t == lstrip(s)
        w == TakeWord(t)
    IN  IF t = <<>> THEN <<>>
        ELSE <<w>> \o split(SubSeq(t, Len(w) + 1, Len(t)))

\* 1024**4 bytes
UnitsPerTB == 1024

\* round(x, 1) in tenths and round(x) for the exact positive fraction n/d
\* whose double is exact: ties go to the even neighbour
RoundHalfEven(n, d) ==
    LET q == n \div d
        r == n - q * d
    IN  IF 2 * r < d THEN q
        ELSE IF 2 * r > d THEN q + 1
        ELSE IF q % 2 = 0 THEN q ELSE q + 1

\* total_tb, used_tb, available_tb in tenths of a terabyte
Storage(total, used, available, pct) ==
    [total_tb |-> total, used_tb |-> used, available_tb |-> available,
     percentage_used |-> pct]

\* 6, 3.2, 2.8 terabytes and 53 percent
StorageFallback == Storage(60, 32, 28, 53)

\* the record with the percentage left at 0 when it is not positive
StorageRecord_pct0(total_units, used_units) ==
    { Storage(IF total_units > 0
              THEN RoundHalfEven(total_units * 10, UnitsPerTB)
              ELSE StorageFallback.total_tb,
              IF used_units > 0
              THEN RoundHalfEven(used_units * 10, UnitsPerTB)
              ELSE StorageFallback.used_tb,
              IF total_units - used_units > 0
              THEN RoundHalfEven((total_units - used_units) * 10, UnitsPerTB)
              ELSE StorageFallback.available_tb,
              p)
      : p \in IF total_units > 0 /\ used_units > 0
              THEN RoundSet(used_units * 100, total_units)
              ELSE {0} }

\* lines 173-183: the records built from the sums (a set only because the
\* quotient used_tb / total_tb * 100 is a rounded double: RoundSet)
StorageRecord(total_units, used_units) ==
    LET available_units == total_units - used_units
        pct_positive == total_units > 0 /\ used_units > 0
    IN  { Storage(IF total_units > 0
                  THEN RoundHalfEven(total_units * 10, UnitsPerTB)
                  ELSE StorageFallback.total_tb,
                  IF used_units > 0
                  THEN RoundHalfEven(used_units * 10, UnitsPerTB)
                  ELSE StorageFallback.used_tb,
                  IF available_units > 0
                  THEN RoundHalfEven(available_units * 10, UnitsPerTB)
                  ELSE StorageFallback.available_tb,
                  p)
          : p \in IF pct_positive
                  THEN RoundSet(used_units * 100, total_units)
                  ELSE {StorageFallback.percentage_used} }

\* One pass of the loop body for a path: what it adds to the sums, or
\* [ok |-> FALSE] when int() raises.  p.exists is os.path.exists(path), p.o
\* the outcome of the df command.
PathSizes(p) ==
    LET parts == split(run_command(p.o))
    IN  IF ~p.exists \/ Len(parts) < 4
        THEN [ok |-> TRUE, total |-> 0, used |-> 0]
        ELSE [ok |-> int(parts[2]).ok /\ int(parts[3]).ok,
              total |-> int(parts[2]).v, used |-> int(parts[3]).v]

RECURSIVE SumSizes(_)
SumSizes(ps) ==
    IF ps = <<>> THEN [ok |-> TRUE, total |-> 0, used |-> 0]
    ELSE LET h == PathSizes(Head(ps))
             t == SumSizes(Tail(ps))
         IN  [ok |-> h.ok /\ t.ok, total |-> h.total + t.total,
              used |-> h.used + t.used]

\* the collector without its try: the ValueError of int() leaves it
get_storage_stats_unguarded(ps) ==
    IF SumSizes(ps).ok
    THEN StorageRecord(SumSizes(ps).total, SumSizes(ps).used)
    ELSE {[raise |-> "ValueError"]}

\* ps: for each path of CONFIG['storage_paths'], in order, whether it exists
\* and the outcome of its df command
get_storage_stats(ps) ==
    LET sums == SumSizes(ps)
    IN  IF sums.ok THEN StorageRecord(sums.total, sums.used)
        ELSE {StorageFallback}

\* CONFIG['storage_paths']
StoragePaths == <<"/mnt/data", "/mnt/media">>

SizeTexts ==
    { <<"0">>, <<"1">>, <<"5", "1", "2">>, <<"1", "0", "2", "4">>, <<"6", "1", "4", "4">>,
      <<"x">>, <<"-", "5">> }

\* the last line df prints: file system, size, used, available
DfLine(size, used) ==
    <<"d", " ">> \o size \o <<" ", " ">> \o used \o <<" ">> \o <<"7">>

DfTexts ==
    {DfLine(a, b) : a \in SizeTexts, b \in SizeTexts}
        \cup { <<>>, <<"d", " ", "1", " ", "1">> }

PathInputs ==
    {[exists |-> TRUE, o |-> Outcome("exit0", RawOf(t))] : t \in DfTexts}
        \cup {[exists |-> TRUE, o |-> Outcome("timeout", <<>>)],
              [exists |-> FALSE, o |-> Outcome("exit0", <<>>)]}

StorageInputs == [1..Len(StoragePaths) -> PathInputs]

InitStorage == pc = "call" /\ inp \in StorageInputs /\ out = None /\ RunIdle

GetStorageStats ==
    /\ pc = "call"
    /\ out' \in get_storage_stats(inp)
    /\ pc' = "ret"
    /\ UNCHANGED <<inp, RunVars>>

SpecStorage == InitStorage /\ [][GetStorageStats]_vars

-----------------------------------------------------------------------------
(* Service status collector.                                               *)

T_healthy == <<"h", "e", "a", "l", "t", "h", "y">>
T_stopped == <<"s", "t", "o", "p", "p", "e", "d">>
T_unknown == <<"u", "n", "k", "n", "o", "w", "n">>
T_unhealthy == <<"u", "n", "h", "e", "a", "l", "t", "h", "y">>
T_active == <<"a", "c", "t", "i", "v", "e">>
T_inactive == <<"i", "n", "a", "c", "t", "i", "v", "e">>
T_id == <<"3", "f", "9", "c">>
T_garbage == <<"n", "/", "a">>
T_ActiveEnter ==
    <<"A", "c", "t", "i", "v", "e", "E", "n", "t", "e", "r", "T", "i",
    "m", "e", "s", "t", "a", "m", "p", "=">>

\* start instants written as the container runtime writes them: 25 hours,
\* 1 hour and 20 minutes before Clock0, and 23 hours after it
Iso_d1_00 == <<"1", "9", "7", "0", "-", "0", "1", "-", "0", "1", "T", "0", "0", ":", "0", "0", ":", "0", "0", "Z">>
Iso_d2_00 == <<"1", "9", "7", "0", "-", "0", "1", "-", "0", "2", "T", "0", "0", ":", "0", "0", ":", "0", "0", "Z">>
Iso_d2_0040 == <<"1", "9", "7", "0", "-", "0", "1", "-", "0", "2", "T", "0", "0", ":", "4", "0", ":", "0", "0", "Z">>
Iso_d3_00 == <<"1", "9", "7", "0", "-", "0", "1", "-", "0", "3", "T", "0", "0", ":", "0", "0", ":", "0", "0", "Z">>

\* the same instants as the service manager writes them
Sys_d1_00 == <<"T", "h", "u", " ", "1", "9", "7", "0", "-", "0", "1", "-", "0",
    "1", " ", "0", "0", ":", "0", "0", ":", "0", "0", " ", "U", "T",
    "C">>
Sys_d2_0040 == <<"F", "r", "i", " ", "1", "9", "7", "0", "-", "0", "1", "-", "0",
    "2", " ", "0", "0", ":", "4", "0", ":", "0", "0", " ", "U", "T",
    "C">>
Sys_d3_00 == <<"S", "a", "t", " ", "1", "9", "7", "0", "-", "0", "1", "-", "0",
    "3", " ", "0", "0", ":", "0", "0", ":", "0", "0", " ", "U", "T",
    "C">>

\* the wall clock when a run starts: 1970-01-02T01:00:00
Clock0 == 25 * 3600

\* str.replace(old, new) for a one-character old
RECURSIVE replace(_, _, _)
replace(s, old, new) ==
    IF s = <<>> THEN <<>>
    ELSE (IF Head(s) = old THEN new ELSE <<Head(s)>>)
             \o replace(Tail(s), old, new)

\* datetime.fromisoformat on the texts enumerated, as seconds since
\* 1970-01-01T00:00:00+00:00; [ok |-> FALSE] stands for ValueError
fromisoformat(s) ==
    LET utc(t) == SubSeq(t, 1, Len(t) - 1) \o <<"+", "0", "0", ":", "0", "0">>
    IN  CASE s = utc(Iso_d1_00) -> [ok |-> TRUE, t |-> 0]
          [] s = utc(Iso_d2_00) -> [ok |-> TRUE, t |-> 24 * 3600]
          [] s = utc(Iso_d2_0040) -> [ok |-> TRUE, t |-> 24 * 3600 + 40 * 60]
          [] s = utc(Iso_d3_00) -> [ok |-> TRUE, t |-> 48 * 3600]
          [] OTHER -> [ok |-> FALSE, t |-> 0]

\* datetime.strptime(s, '%a %Y-%m-%d %H:%M:%S %Z') on the texts enumerated
strptime(s) ==
    CASE s = Sys_d1_00 -> [ok |-> TRUE, t |-> 0]
      [] s = Sys_d2_0040 -> [ok |-> TRUE, t |-> 24 * 3600 + 40 * 60]
      [] s = Sys_d3_00 -> [ok |-> TRUE, t |-> 48 * 3600]
      [] OTHER -> [ok |-> FALSE, t |-> 0]

\* `sub in s`
contains(s, sub) ==
    \E i \in 1..(Len(s) - Len(sub) + 1) : SubSeq(s, i, i + Len(sub) - 1) = sub

\* s.split(sep) for a one-character sep
RECURSIVE split_on(_, _)
split_on(s, sep) ==
    LET hits == {i \in 1..Len(s) : s[i] = sep}
        i == CHOOSE k \in hits : \A j \in hits : k <= j
    IN  IF hits = {} THEN <<s>>
        ELSE <<SubSeq(s, 1, i - 1)>> \o split_on(SubSeq(s, i + 1, Len(s)), sep)

\* int(x / y) for y > 0: the quotient cut towards zero
IntDiv(x, y) == IF x >= 0 THEN x \div y ELSE -((-x) \div y)

\* the placeholder of lines 213, 240, 247 and 252
PlaceholderHours == 720

\* CONFIG['services']
ConfigServices ==
    << [name |-> "Prometheus", kind |-> "container", unit |-> "prometheus"],
       [name |-> "Grafana", kind |-> "container", unit |-> "grafana"],
       [name |-> "Fail2Ban", kind |-> "service", unit |-> "fail2ban"],
       [name |-> "Nginx Proxy Manager", kind |-> "container",
        unit |-> "nginx-proxy-manager"],
       [name |-> "Jellyfin", kind |-> "container", unit |-> "jellyfin"],
       [name |-> "Nextcloud", kind |-> "container", unit |-> "nextcloud"] >>

\* lines 249-254: the record returned; t is the clock when it is built
ServiceRecord(name, status, uptime_hours, t) ==
    [name |-> name,
     status |-> IF status # <<>> THEN status ELSE T_healthy,
     uptime_hours |-> IF uptime_hours > 0 THEN uptime_hours
                      ELSE PlaceholderHours,
     last_check |-> t]

\* lines 196-221.  o1: `docker ps -q -f name=`, o2: the StartedAt query,
\* o3: the Health.Status query
ContainerStatus(o1, o2, o3, t) ==
    LET is_running == run_command(o1)
        started_at == run_command(o2)
        start_time == fromisoformat(replace(started_at, "Z",
                          <<"+", "0", "0", ":", "0", "0">>))
        health == run_command(o3)
    IN  IF is_running # <<>>
        THEN [status |-> IF health \in {T_healthy, <<>>} THEN T_healthy
                         ELSE health,
              uptime_hours |->
                  IF started_at = <<>> THEN 0
                  ELSE IF start_time.ok
                       THEN IntDiv(t - start_time.t, 3600)
                       ELSE PlaceholderHours]
        ELSE [status |-> T_stopped, uptime_hours |-> 0]

\* lines 223-242.  o1: `systemctl is-active`, o2: the ActiveEnterTimestamp
\* query
SystemdStatus(o1, o2, t) ==
    LET is_active == run_command(o1)
        uptime_output == run_command(o2)
        timestamp_str == split_on(uptime_output, "=")[2]
        start_time == strptime(timestamp_str)
    IN  IF is_active = T_active
        THEN [status |-> T_healthy,
              uptime_hours |->
                  IF ~contains(uptime_output, T_ActiveEnter) THEN 0
                  ELSE IF start_time.ok
                       THEN IntDiv(t - start_time.t, 3600)
                       ELSE PlaceholderHours]
        ELSE [status |-> T_stopped, uptime_hours |-> 0]

\* the collector returning the uptime it computed, 0 included
get_service_status_raw(service, o1, o2, o3, t) ==
    LET r == IF service.kind = "container" THEN ContainerStatus(o1, o2, o3, t)
             ELSE SystemdStatus(o1, o2, t)
    IN  [name |-> service.name, status |-> r.status,
         uptime_hours |-> r.uptime_hours, last_check |-> t]

\* the collector reading datetime.now() on a host one hour ahead of UTC
get_service_status_local(service, o1, o2, o3, t) ==
    LET r == IF service.kind = "container" THEN ContainerStatus(o1, o2, o3, t)
             ELSE SystemdStatus(o1, o2, t)
    IN  ServiceRecord(service.name, r.status, r.uptime_hours, t + 3600)

\* No statement of the try block raises (run_command does not, and the two
\* timestamp parses have their own handlers), so the handler of lines
\* 244-247 is never entered.
get_service_status(service, o1, o2, o3, t) ==
    LET r == IF service.kind = "container" THEN ContainerStatus(o1, o2, o3, t)
             ELSE IF service.kind = "service" THEN SystemdStatus(o1, o2, t)
             ELSE [status |-> T_unknown, uptime_hours |-> 0]
    IN  ServiceRecord(service.name, r.status, r.uptime_hours, t)

ServiceTexts ==
    { <<>>, T_id, T_active, T_inactive, T_healthy, T_unhealthy, T_garbage,
      Iso_d1_00, Iso_d2_00, Iso_d2_0040, Iso_d3_00,
      T_ActiveEnter, T_ActiveEnter \o Sys_d1_00,
      T_ActiveEnter \o Sys_d2_0040, T_ActiveEnter \o Sys_d3_00,
      T_ActiveEnter \o T_garbage }

ServiceOutcomes ==
    {Outcome("exit0", RawOf(t)) : t \in ServiceTexts}
        \cup {Outcome("nonzero", RawOf(T_inactive)), Outcome("timeout", <<>>)}

ServiceInputs ==
    (1..Len(ConfigServices)) \X ServiceOutcomes \X ServiceOutcomes
        \X ServiceOutcomes

InitService ==
    /\ pc = "call" /\ inp \in ServiceInputs /\ out = None
    /\ clock = Clock0 /\ now = None /\ uptime_pct = None
    /\ security_stats = None /\ container_stats = None
    /\ storage_stats = None /\ services = <<>> /\ stats = None
    /\ file = <<>> /\ raised = NoException /\ exit_code = -1

GetServiceStatus ==
    /\ pc = "call"
    /\ out' = get_service_status(ConfigServices[inp[1]], inp[2], inp[3],
                                 inp[4], clock)
    /\ pc' = "ret"
    /\ UNCHANGED <<inp, RunVars>>

SpecService == InitService /\ [][GetServiceStatus]_vars

-----------------------------------------------------------------------------
(* Aggregator, sink, publisher and main: one run of the script.            *)

\* An exception leaving a function is the value [raise |-> its name] in the
\* place of the function's result.
Propagates(r) == "raise" \in DOMAIN r

\* lines 271-292: the Snapshot built from the locals of collect_all_stats
Snapshot(t, pct, sec, cont, stor, svcs) ==
    [timestamp |-> t,
     uptime |-> [percentage |-> pct, days_monitored |-> 30,
                 last_incident |-> None],
     security |-> [attacks_blocked_24h |-> sec.attacks_blocked_24h,
                   attacks_blocked_total |-> sec.attacks_blocked_total,
                   active_bans |-> sec.active_bans,
                   last_attack |-> t - 2 * 60],
     containers |-> cont,
     storage |-> stor,
     services |-> svcs,
     network |-> [bytes_in_24h |-> "12500000000",
                  bytes_out_24h |-> "8900000000",
                  active_connections |-> 42]]

\* How the file-system calls of save_stats can end: all succeed, or
\* os.makedirs, open or the write raises OSError.
FsOutcomes == {"ok", "makedirs", "open", "write"}

\* save_stats: the file afterwards (f is the file before) and the exception
\* that leaves the function.  open(..., 'w') empties the file before a
\* failing write.
save_stats(s, f, fs) ==
    CASE fs = "ok" -> [file |-> <<s>>, raise |-> "none"]
      [] fs = "makedirs" -> [file |-> f, raise |-> "OSError"]
      [] fs = "open" -> [file |-> f, raise |-> "OSError"]
      [] fs = "write" -> [file |-> <<>>, raise |-> "OSError"]

\* CONFIG['github_repo']
GithubRepo == None

\* the outcomes enumerated for each collector within a whole run
Exit0(t) == Outcome("exit0", RawOf(t))

TimedOut == Outcome("timeout", <<>>)

PipeUptime ==
    { Exit0(<<"8", "6", "4", "0", "0", ".", "0", "0">>), Exit0(<<"-", "2", "6", "0", "0", "0", ".", "0", "0">>),
      TimedOut }

PipeSecurity ==
    { <<TimedOut, TimedOut, TimedOut>>,
      <<Exit0(<<"5", "0", "0", "0", "0">>), Exit0(<<"2", "5", "0">>), Exit0(<<"5">>)>>,
      <<Exit0(<<"SUP2">>), Exit0(<<"5">>), Exit0(<<"5">>)>> }

PipeContainers ==
    { <<TimedOut, TimedOut, TimedOut, TimedOut>>,
      <<Exit0(<<"3">>), Exit0(<<"2", "4">>), Exit0(<<"3">>), Exit0(<<"0">>)>>,
      <<Exit0(<<"3">>), Exit0(<<"SUP2">>), Exit0(<<"3">>), Exit0(<<"0">>)>> }

PipeStorage ==
    { [i \in 1..2 |-> [exists |-> FALSE, o |-> Exit0(<<>>)]],
      [i \in 1..2 |-> [exists |-> TRUE,
                       o |-> Exit0(DfLine(<<"6", "1", "4", "4">>, <<"5", "1", "2">>))]],
      [i \in 1..2 |-> [exists |-> TRUE,
                       o |-> Exit0(DfLine(<<"x">>, <<"1">>))]] }

PipeService(service) ==
    { <<TimedOut, TimedOut, TimedOut>>,
      IF service.kind = "container"
      THEN <<Exit0(T_id), Exit0(Iso_d1_00), Exit0(T_unhealthy)>>
      ELSE <<Exit0(T_active), Exit0(T_ActiveEnter \o Sys_d1_00), Exit0(<<>>)>> }

Init ==
    /\ pc = "main" /\ inp = None /\ out = None
    /\ clock = Clock0 /\ now = None /\ uptime_pct = None
    /\ security_stats = None /\ container_stats = None
    /\ storage_stats = None /\ services = <<>> /\ stats = None
    /\ file = <<>> /\ raised = NoException /\ exit_code = -1

Collecting ==
    {"main", "uptime", "security", "containers", "storage", "services"}

\* Time passes between the steps of the collection (bounded by MaxTicks).
\* After the collection nothing reads the clock.
Tick ==
    /\ pc \in Collecting
    /\ clock < Clock0 + MaxTicks
    /\ clock' = clock + 1
    /\ UNCHANGED <<pc, inp, out, now, uptime_pct, security_stats,
                   container_stats, storage_stats, services, stats, file,
                   raised, exit_code>>

\* an exception leaves collect_all_stats, and with it main: traceback, exit 1
Crash(e, fn) ==
    /\ pc' = "crashed" /\ raised' = [exc |-> e, from |-> fn] /\ exit_code' = 1

\* main calls collect_all_stats, which reads the clock (line 259)
StartCollect ==
    /\ pc = "main"
    /\ now' = clock
    /\ pc' = "uptime"
    /\ UNCHANGED <<inp, out, clock, uptime_pct, security_stats,
                   container_stats, storage_stats, services, stats, file,
                   raised, exit_code>>

CollectUptime ==
    /\ pc = "uptime"
    /\ \E o \in PipeUptime : \E r \in get_uptime_percentage(o) :
          IF Propagates(r)
          THEN Crash(r.raise, "get_uptime_percentage") /\ UNCHANGED uptime_pct
          ELSE /\ uptime_pct' = r /\ pc' = "security"
               /\ UNCHANGED <<raised, exit_code>>
    /\ UNCHANGED <<inp, out, clock, now, security_stats, container_stats,
                   storage_stats, services, stats, file>>

CollectSecurity ==
    /\ pc = "security"
    /\ \E o \in PipeSecurity :
          LET r == get_attacks_blocked(o[1], o[2], o[3])
          IN  IF Propagates(r)
              THEN Crash(r.raise, "get_attacks_blocked") /\ UNCHANGED security_stats
              ELSE /\ security_stats' = r /\ pc' = "containers"
                   /\ UNCHANGED <<raised, exit_code>>
    /\ UNCHANGED <<inp, out, clock, now, uptime_pct, container_stats,
                   storage_stats, services, stats, file>>

CollectContainers ==
    /\ pc = "containers"
    /\ \E o \in PipeContainers :
          LET r == get_container_stats(o[1], o[2], o[3], o[4])
          IN  IF Propagates(r)
              THEN Crash(r.raise, "get_container_stats") /\ UNCHANGED container_stats
              ELSE /\ container_stats' = r /\ pc' = "storage"
                   /\ UNCHANGED <<raised, exit_code>>
    /\ UNCHANGED <<inp, out, clock, now, uptime_pct, security_stats,
                   storage_stats, services, stats, file>>

CollectStorage ==
    /\ pc = "storage"
    /\ \E ps \in PipeStorage : \E r \in get_storage_stats(ps) :
          IF Propagates(r)
          THEN Crash(r.raise, "get_storage_stats") /\ UNCHANGED storage_stats
          ELSE /\ storage_stats' = r /\ pc' = "services"
               /\ UNCHANGED <<raised, exit_code>>
    /\ UNCHANGED <<inp, out, clock, now, uptime_pct, security_stats,
                   container_stats, services, stats, file>>

\* one element of the list comprehension of line 268
CollectService ==
    /\ pc = "services"
    /\ Len(services) < Len(ConfigServices)
    /\ LET service == ConfigServices[Len(services) + 1]
       IN  \E o \in PipeService(service) :
              LET r == get_service_status(service, o[1], o[2], o[3], clock)
              IN  IF Propagates(r)
                  THEN Crash(r.raise, "get_service_status") /\ UNCHANGED services
                  ELSE /\ services' = Append(services, r)
                       /\ UNCHANGED <<pc, raised, exit_code>>
    /\ UNCHANGED <<inp, out, clock, now, uptime_pct, security_stats,
                   container_stats, storage_stats, stats, file>>

\* collect_all_stats builds the Snapshot and returns it to main
ReturnStats ==
    /\ pc = "services"
    /\ Len(services) = Len(ConfigServices)
    /\ stats' = Snapshot(now, uptime_pct, security_stats, container_stats,
                         storage_stats, services)
    /\ pc' = "save"
    /\ UNCHANGED <<inp, out, clock, now, uptime_pct, security_stats,
                   container_stats, storage_stats, services, file, raised,
                   exit_code>>

\* main calls save_stats, which has no handler of its own, and neither has
\* main
SaveStats ==
    /\ pc = "save"
    /\ \E fs \in FsOutcomes :
          LET r == save_stats(stats, file, fs)
          IN  /\ file' = r.file
              /\ IF r.raise # "none"
                 THEN Crash(r.raise, "save_stats")
                 ELSE pc' = "push" /\ UNCHANGED <<raised, exit_code>>
    /\ UNCHANGED <<inp, out, clock, now, uptime_pct, security_stats,
                   container_stats, storage_stats, services, stats>>

\* push_to_github returns at once: CONFIG['github_repo'] is None
PushToGithub ==
    /\ pc = "push"
    /\ GithubRepo = None
    /\ pc' = "summary"
    /\ UNCHANGED <<inp, out, clock, now, uptime_pct, security_stats,
                   container_stats, storage_stats, services, stats, file,
                   raised, exit_code>>

\* main prints the summary and returns: the process exits with status 0
PrintSummary ==
    /\ pc = "summary"
    /\ pc' = "done"
    /\ exit_code' = 0
    /\ UNCHANGED <<inp, out, clock, now, uptime_pct, security_stats,
                   container_stats, storage_stats, services, stats, file,
                   raised>>

Next ==
    \/ Tick
    \/ StartCollect
    \/ CollectUptime
    \/ CollectSecurity
    \/ CollectContainers
    \/ CollectStorage
    \/ CollectService
    \/ ReturnStats
    \/ SaveStats
    \/ PushToGithub
    \/ PrintSummary

Spec == Init /\ [][Next]_vars

-----------------------------------------------------------------------------
(* The claims.                                                             *)

Returned == {"save", "push", "summary", "done"}

\* C1: no error propagates out of a run: whatever the commands and the
\* file-system calls do, main runs to the end and the process exits with
\* status 0.
C1_NoErrorPropagates ==
    /\ pc # "crashed"
    /\ raised = NoException
    /\ exit_code \in {-1, 0}

\* t is raw with its leading and trailing whitespace removed
IsTrimOf(t, raw) ==
    \E i \in 0..Len(raw) : \E j \in i..Len(raw) :
        /\ t = SubSeq(raw, i + 1, j)
        /\ \A k \in 1..i : raw[k] \in Whitespace
        /\ \A k \in (j + 1)..Len(raw) : raw[k] \in Whitespace
        /\ t # <<>> => t[1] \notin Whitespace /\ t[Len(t)] \notin Whitespace

\* C2 as stated: run_command returns the empty string on a non-zero exit
\* status, on a timeout and on an exception, and the trimmed standard output
\* only when the command succeeds.
C2_EmptyOnEveryFailure ==
    pc = "ret" =>
        IF inp.how = "exit0" THEN IsTrimOf(out, inp.stdout) ELSE out = <<>>

\* C2 as amended: run_command returns the empty string on a timeout and on
\* an exception, and otherwise the trimmed standard output, whatever the
\* exit status of the command.
C2_EmptyOnTimeoutOrException ==
    pc = "ret" =>
        IF inp.how \in {"timeout", "oserror"} THEN out = <<>>
        ELSE IsTrimOf(out, inp.stdout)

\* a command that exits non-zero, whose output, trimmed, is returned
C2_Witness ==
    /\ pc = "ret" /\ inp.how = "nonzero"
    /\ out # <<>> /\ out # inp.stdout

SnapshotKeys ==
    {"timestamp", "uptime", "security", "containers", "storage", "services",
     "network"}

Populated(s) ==
    /\ DOMAIN s = SnapshotKeys
    /\ DOMAIN s.uptime = {"percentage", "days_monitored", "last_incident"}
    /\ DOMAIN s.uptime.percentage = {"k", "tenths"}
    /\ DOMAIN s.security = {"attacks_blocked_24h", "attacks_blocked_total",
                            "active_bans", "last_attack"}
    /\ DOMAIN s.containers = {"running", "total", "healthy", "unhealthy"}
    /\ DOMAIN s.storage = {"total_tb", "used_tb", "available_tb",
                           "percentage_used"}
    /\ Len(s.services) = Len(ConfigServices)
    /\ \A i \in 1..Len(ConfigServices) :
          /\ DOMAIN s.services[i] = {"name", "status", "uptime_hours",
                                     "last_check"}
          /\ s.services[i].name = ConfigServices[i].name
          /\ s.services[i].status # <<>>
    /\ DOMAIN s.network = {"bytes_in_24h", "bytes_out_24h",
                           "active_connections"}

C4_UptimeInRange ==
    pc = "ret" =>
        /\ out.k = "num"
        /\ out.tenths >= 0 /\ out.tenths <= 1000
        /\ ~float(run_command(inp)).ok => out = UptimeFallback

\* the record computed from the sums alone, no field replaced
C5_Computed(total_units, used_units) ==
    { Storage(RoundHalfEven(total_units * 10, UnitsPerTB),
              RoundHalfEven(used_units * 10, UnitsPerTB),
              RoundHalfEven((total_units - used_units) * 10, UnitsPerTB),
              p) : p \in RoundSet(used_units * 100, total_units) }

\* C5: get_storage_stats is all or nothing: the record is computed from the
\* sums in every field, or it is the fallback tuple in every field.
C5_AllOrNothing ==
    pc = "ret" =>
        \/ out = StorageFallback
        \/ /\ SumSizes(inp).ok /\ SumSizes(inp).total > 0
           /\ out \in C5_Computed(SumSizes(inp).total, SumSizes(inp).used)

\* C6: when every configured path adds 0 to both sums (it is missing, its
\* df line is short, or it reports sizes of 0), the record is exactly
\* (6, 3.2, 2.8, 53).
C6_ZeroSumsGiveFallback ==
    pc = "ret" /\ (\A i \in DOMAIN inp :
                      PathSizes(inp[i]) = [ok |-> TRUE, total |-> 0, used |-> 0])
        => out = StorageFallback

\* one path reports sizes of 0, the other is missing
C6_Witness ==
    /\ pc = "ret"
    /\ inp[1].exists /\ Len(split(run_command(inp[1].o))) >= 4
    /\ PathSizes(inp[1]) = [ok |-> TRUE, total |-> 0, used |-> 0]
    /\ ~inp[2].exists
    /\ out = Storage(60, 32, 28, 53)

\* the count a text stands for: its value when it is a string of decimal
\* digits, and 0 otherwise
CountOf(x) == IF AllAscii(x) THEN DecVal(x) ELSE 0

\* C7: with n, t and a the counts the three commands printed (0 for a text
\* that is no non-negative integer), get_attacks_blocked returns
\* max(n, 100), max(t, 45000) and a.
C7_Floors ==
    pc = "ret" =>
        LET t == CountOf(run_command(inp[1]))
            n == CountOf(run_command(inp[2]))
            a == CountOf(run_command(inp[3]))
        IN  /\ out.attacks_blocked_24h = (IF n >= 100 THEN n ELSE 100)
            /\ out.attacks_blocked_total = (IF t >= 45000 THEN t ELSE 45000)
            /\ out.active_bans = a

\* C8: every record get_service_status returns has uptime_hours > 0: an
\* uptime computed as 0 or less is replaced by 720 and the status that was
\* determined is kept; a container reported as not running is 'stopped'
\* with 720 hours.
C8_UptimeNeverZero ==
    pc = "ret" =>
        LET service == ConfigServices[inp[1]]
            r == IF service.kind = "container"
                 THEN ContainerStatus(inp[2], inp[3], inp[4], clock)
                 ELSE SystemdStatus(inp[2], inp[3], clock)
        IN  /\ out.uptime_hours > 0
            /\ out.status = r.status
            /\ out.uptime_hours =
                  (IF r.uptime_hours <= 0 THEN 720 ELSE r.uptime_hours)
            /\ service.kind = "container" /\ run_command(inp[2]) = <<>>
                  => out.status = T_stopped /\ out.uptime_hours = 720

\* a container-backed service whose container is not running
C8_Witness ==
    /\ pc = "ret"
    /\ ConfigServices[inp[1]].kind = "container"
    /\ inp[2].how = "exit0" /\ run_command(inp[2]) = <<>>
    /\ out.status = T_stopped /\ out.uptime_hours = 720

\* C9: when the running and the healthy outputs are both non-numeric or
\* zero, the healthy count returned equals the running count returned: no
\* record has healthy = 0 beside running = 24.
C9_HealthyDefaultsToRunning ==
    pc = "ret" =>
        /\ CountOf(run_command(inp[1])) = 0 /\ CountOf(run_command(inp[3])) = 0
              => out.healthy = out.running
        /\ ~(out.healthy = 0 /\ out.running = 24)

\* C10 as stated: in every Snapshot each service's last_check equals the
\* top-level timestamp, and last_attack is 2 minutes before it.
C10_LastCheckIsTimestamp ==
    pc \in Returned =>
        /\ \A i \in 1..Len(stats.services) :
              stats.services[i].last_check = stats.timestamp
        /\ stats.security.last_attack = stats.timestamp - 120

\* C10 as amended: the timestamp is the clock read when the collection
\* starts; each service's last_check is the clock read when that service's
\* record is built, later in the run; last_attack is 2 minutes before the
\* timestamp.
C10_LastCheckIsClockAtCheck ==
    [][ /\ pc = "main" /\ pc' = "uptime" => now' = clock
        /\ Len(services') = Len(services) + 1
              => services'[Len(services')].last_check = clock
        /\ pc = "services" /\ pc' = "save"
              => /\ stats'.timestamp = now
                 /\ stats'.security.last_attack = now - 120
                 /\ \A i \in 1..Len(ConfigServices) :
                       stats'.services[i].last_check = services[i].last_check
      ]_vars

\* a Snapshot of a run during which the clock advanced before a service was
\* checked
C10_Witness ==
    /\ pc = "done"
    /\ \E i \in 1..Len(stats.services) :
          stats.services[i].last_check # stats.timestamp
    /\ stats.security.last_attack = stats.timestamp - 120

=============================================================================
